---- MODULE Spec2Model ----
(***************************************************************************)
(* A model of the FBMessenger client of src/lib/fbmessenger.js (the 3.0.0  *)
(* client, lines 646-1517): the request validation, the batch buffer, the  *)
(* JSON and multipart transports, the response processing and the public   *)
(* send operations built on them.                                          *)
(*                                                                         *)
(* JavaScript values are records tagged by their kind (field t); an own    *)
(* property of an object is a key in the domain of its fields. A call's    *)
(* outcome is a record: the value returned or the error thrown.            *)
(***************************************************************************)
EXTENDS Integers, Sequences, FiniteSets, TLC

VARIABLES
    BATCH_MODE,         \* the client's batch flag, fixed at construction
    batchRequestBuffer, \* the queue of pending sub-requests
    lastCall            \* the last operation: its arguments, the queue before it,
                        \* the HTTP requests it issued and its outcome

vars == <<BATCH_MODE, batchRequestBuffer, lastCall>>

(***************************************************************************)
(* Bounds of the model.                                                    *)
(***************************************************************************)
MaxQueue == 2

(***************************************************************************)
(* JavaScript values.                                                      *)
(***************************************************************************)
JSUndefined == [t |-> "undefined"]
JSNull == [t |-> "null"]
Str(s) == [t |-> "string", v |-> s]
Num(s) == [t |-> "number", v |-> s]
Bool(s) == [t |-> "boolean", v |-> s]
Obj(f) == [t |-> "object", fields |-> f]
Arr(s) == [t |-> "array", items |-> s]

NoFields == [k \in {} |-> JSUndefined]

\* typeof x
TypeOf(x) ==
    IF x.t \in {"null", "object", "array", "MultipartStream", "Stream"}
    THEN "object" ELSE x.t

\* x instanceof Object
InstanceofObject(x) == x.t \in {"object", "array", "MultipartStream", "Stream"}

\* x == null
IsNullish(x) == x.t \in {"null", "undefined"}

\* the truthiness of x, as in `x ? a : b`, `x || b` and `!x`
Truthy(x) ==
    CASE x.t \in {"null", "undefined"} -> FALSE
      [] x.t = "string" -> x.v # ""
      [] x.t = "number" -> x.v # "0"
      [] x.t = "boolean" -> x.v = "true"
      [] OTHER -> TRUE

\* !x
Not(x) == Bool(IF Truthy(x) THEN "false" ELSE "true")

\* a || b
OrElse(a, b) == IF Truthy(a) THEN a ELSE b

\* o.hasOwnProperty(k), for an o that is neither null nor undefined
HasOwnProperty(o, k) == o.t = "object" /\ k \in DOMAIN o.fields

\* o[k] = v
SetProperty(o, k, v) ==
    Obj([n \in DOMAIN o.fields \cup {k} |-> IF n = k THEN v ELSE o.fields[n]])

\* String(x)
JSString(x) ==
    CASE x.t \in {"string", "number", "boolean"} -> Str(x.v)
      [] x.t \in {"null", "undefined"} -> Str(x.t)
      [] OTHER -> Str("[object Object]")

\* JSON.stringify(x): an own property whose value is undefined is left out, an
\* undefined array item is written as null, and the result is a text
RECURSIVE JSONValue(_)
JSONValue(x) ==
    CASE x.t = "object" ->
            Obj([k \in {n \in DOMAIN x.fields : x.fields[n].t # "undefined"} |->
                    JSONValue(x.fields[k])])
      [] x.t = "array" ->
            Arr([i \in DOMAIN x.items |->
                    IF x.items[i].t = "undefined" THEN JSNull
                    ELSE JSONValue(x.items[i])])
      [] x.t = "MultipartStream" -> Obj([name |-> x.name, stream |-> Obj(NoFields)])
      [] OTHER -> x

JSONStringify(x) == [t |-> "string", json |-> JSONValue(x)]

(***************************************************************************)
(* Outcomes of a call.                                                     *)
(***************************************************************************)
Return(v) == [kind |-> "return", value |-> v]
Throw(name, message) == [kind |-> "throw", name |-> name, message |-> message]

\* the error raised without the decoded response
GraphApiErrorWithoutResponse(message, response) ==
    [kind |-> "throw", name |-> "GraphApiError", message |-> message,
     response |-> JSNull]

\* new GraphApiError(message, response)
GraphApiError(message, response) ==
    [kind |-> "throw", name |-> "GraphApiError", message |-> message,
     response |-> response]

\* the streams of a call that holds no upload
NoStreams == <<>>

\* what a call did: its outcome, the HTTP requests it issued, the queue it left
\* and the streams of its uploads (none unless the call says otherwise)
Effect(result, http, buffer) ==
    [result |-> result, http |-> http, buffer |-> buffer, streams |-> NoStreams]

(***************************************************************************)
(* The client's constants.                                                 *)
(***************************************************************************)
NOTIFICATION_DEFAULT == Str("REGULAR")
FB_API_BASE_URL == "https://graph.facebook.com/"
FB_API_VERSION == "v2.9/"
FB_API_URL == FB_API_BASE_URL \o FB_API_VERSION
TOKEN == "PAGE_TOKEN"

(***************************************************************************)
(* The HTTP exchange. request() of ringo/httpclient either fails to        *)
(* complete the exchange (it throws) or answers with a status and a body;  *)
(* which one is the remote side's choice.                                  *)
(***************************************************************************)
BODY_HTML == "<html>Bad Gateway</html>"
BODY_NULL == "null"
BODY_ERROR == "{\"error\":{\"code\":190,\"type\":\"OAuthException\",\"message\":\"bad token\"}}"
BODY_SUCCESS == "{\"recipient_id\":\"U1\",\"message_id\":\"mid.1\"}"
BODY_RESULT == "{\"result\":\"success\"}"
BODY_ATTACHMENT == "{\"attachment_id\":\"1745504518999123\"}"

Statuses == {200, 400}
Contents == {BODY_HTML, BODY_NULL, BODY_ERROR, BODY_SUCCESS}

NoExchange == [io |-> "none"]
FailedExchange == [io |-> "failed"]
Exchange(status, content) == [io |-> "done", status |-> status, content |-> content]
Exchanges ==
    {FailedExchange} \cup {Exchange(s, c) : s \in Statuses, c \in Contents}

\* JSON.parse(content): the decoded value, or no value for a text that is not JSON
JSONParse(content) ==
    CASE content = BODY_NULL -> [ok |-> TRUE, value |-> JSNull]
      [] content = BODY_ERROR ->
            [ok |-> TRUE,
             value |-> Obj([error |-> Obj([code |-> Num("190"),
                                           type |-> Str("OAuthException"),
                                           message |-> Str("bad token")])])]
      [] content = BODY_SUCCESS ->
            [ok |-> TRUE,
             value |-> Obj([recipient_id |-> Str("U1"), message_id |-> Str("mid.1")])]
      [] content = BODY_RESULT ->
            [ok |-> TRUE, value |-> Obj([result |-> Str("success")])]
      [] content = BODY_ATTACHMENT ->
            [ok |-> TRUE, value |-> Obj([attachment_id |-> Str("1745504518999123")])]
      [] OTHER -> [ok |-> FALSE]

\* resp.error.<k> as it is concatenated into the error message
ErrorPart(resp, k) ==
    IF HasOwnProperty(resp.fields.error, k)
    THEN JSString(resp.fields.error.fields[k]).v ELSE "undefined"

processExchange(exchange) ==
    LET parsed == JSONParse(exchange.content) IN
    IF ~parsed.ok
    THEN Throw("Error", "Could not parse JSON response by Messenger Send API: SyntaxError")
    ELSE LET resp == parsed.value IN
         \* status !== 200 || resp.hasOwnProperty("error"): the right operand is
         \* evaluated when the status is 200, and throws on a null resp
         IF exchange.status = 200 /\ IsNullish(resp)
         THEN Throw("TypeError", "Cannot call method hasOwnProperty of null")
         ELSE IF exchange.status # 200 \/ HasOwnProperty(resp, "error")
         THEN IF resp # JSNull /\ HasOwnProperty(resp, "error")
              THEN IF IsNullish(resp.fields.error)
                   THEN Throw("TypeError", "Cannot read property code of null")
                   ELSE GraphApiError(
                            "Messenger Send API error code " \o ErrorPart(resp, "code")
                                \o "; " \o ErrorPart(resp, "type")
                                \o "; " \o ErrorPart(resp, "message"),
                            resp)
              ELSE GraphApiError("Messenger Send API returned unknown error.", resp)
         ELSE IF resp # JSNull
         THEN Return(resp)
         ELSE GraphApiError("Messenger Send API returned unknown error.", resp)

\* the decoded body dropped from the result
ExchangedWithoutBody(x) ==
    IF x.io = "failed"
    THEN Throw("IOException", "the HTTP exchange did not complete")
    ELSE IF processExchange(x).kind = "return" THEN Return(JSNull)
    ELSE processExchange(x)

\* processExchange(request(options)) for the exchange x the remote side chose
Exchanged(x) ==
    IF x.io = "failed"
    THEN Throw("IOException", "the HTTP exchange did not complete")
    ELSE processExchange(x)

(***************************************************************************)
(* _request: the JSON transport.                                           *)
(***************************************************************************)
\* payload != null && !payload instanceof Object: `!payload` is a boolean, and
\* a boolean is never an instance of Object
invalidPayload(payload) == ~IsNullish(payload) /\ InstanceofObject(Not(payload))

\* the recipient check left out
recipientNeverMissing(payload) == FALSE

\* !payload.hasOwnProperty("recipient")
recipientMissing(payload) == ~HasOwnProperty(payload, "recipient")

\* the message check left out
messageNeverMissing(payload) == FALSE

\* !payload.hasOwnProperty("message") && !payload.hasOwnProperty("sender_action")
messageMissing(payload) ==
    ~HasOwnProperty(payload, "message") /\ ~HasOwnProperty(payload, "sender_action")

\* the checks of a call to graphEndpoint: the error thrown, or the payload that
\* goes on (with its tag set)
checkRequest(graphEndpoint, payload, payloadTag) ==
    IF graphEndpoint = "me/messages"
    THEN IF IsNullish(payload)
         THEN [ok |-> FALSE,
               error |-> Throw("TypeError", "Cannot call method hasOwnProperty of null")]
         ELSE IF recipientMissing(payload)
         THEN [ok |-> FALSE,
               error |-> Throw("Error",
                   "Invalid payload for Messenger Send API: recipient missing!")]
         ELSE IF messageMissing(payload)
         THEN [ok |-> FALSE,
               error |-> Throw("Error",
                   "Invalid payload for Messenger Send API: message or sender_action missing!")]
         ELSE IF ~IsNullish(payloadTag)
         THEN IF TypeOf(payloadTag) # "string"
              THEN [ok |-> FALSE, error |-> Throw("Error", "Invalid payload tag!")]
              ELSE [ok |-> TRUE, payload |-> SetProperty(payload, "tag", payloadTag)]
         ELSE [ok |-> TRUE, payload |-> payload]
    ELSE IF TypeOf(payloadTag) = "string"
    THEN [ok |-> FALSE,
          error |-> Throw("Error", "Payload tag cannot be specified for non-message calls!")]
    ELSE [ok |-> TRUE, payload |-> payload]

\* method ? method : "POST"
methodOrPost(method) == IF Truthy(method) THEN method.v ELSE "POST"

\* the sub-request pushed on the buffer
subRequest(graphEndpoint, payload, method) ==
    [method |-> methodOrPost(method),
     relative_url |-> FB_API_VERSION \o graphEndpoint,
     body |-> payload]

\* the push done twice
pushRequestTwice(buffer, request) == Append(Append(buffer, request), request)

\* batchRequestBuffer.push(...)
pushRequest(buffer, request) == Append(buffer, request)

\* the options of the immediate HTTP request
jsonRequest(graphEndpoint, payload, queryString, method) ==
    [url |-> FB_API_URL \o graphEndpoint \o "?access_token=" \o TOKEN
                \o (IF TypeOf(queryString) = "string" THEN "&" \o queryString.v ELSE ""),
     method |-> methodOrPost(method),
     data |-> IF Truthy(payload) THEN JSONStringify(payload) ELSE Str(""),
     contentType |-> "application/json; charset=utf-8"]

\* whether a call that passed its checks is queued rather than sent
queued(batch) == batch

\* the immediate request issued again after an exchange that failed
requestRetried(batch, buffer, graphEndpoint, payload, queryString, method, payloadTag, x) ==
    LET checked == checkRequest(graphEndpoint, payload, payloadTag) IN
    IF ~checked.ok
    THEN Effect(checked.error, <<>>, buffer)
    ELSE IF queued(batch)
    THEN Effect(Return(JSUndefined), <<>>,
                pushRequest(buffer, subRequest(graphEndpoint, checked.payload, method)))
    ELSE LET options == jsonRequest(graphEndpoint, checked.payload, queryString, method) IN
         Effect(Exchanged(x),
                IF Exchanged(x).kind = "throw" THEN <<options, options>> ELSE <<options>>,
                buffer)

_request(batch, buffer, graphEndpoint, payload, queryString, method, payloadTag, x) ==
    IF invalidPayload(payload)
    THEN Effect(Throw("Error", "Invalid payload for Messenger Send API: undefined"),
                <<>>, buffer)
    ELSE LET checked == checkRequest(graphEndpoint, payload, payloadTag) IN
         IF ~checked.ok
         THEN Effect(checked.error, <<>>, buffer)
         ELSE IF queued(batch)
         THEN Effect(Return(JSUndefined), <<>>,
                     pushRequest(buffer, subRequest(graphEndpoint, checked.payload, method)))
         ELSE Effect(Exchanged(x),
                     <<jsonRequest(graphEndpoint, checked.payload, queryString, method)>>,
                     buffer)

(***************************************************************************)
(* _requestMultipart: the multipart transport.                             *)
(***************************************************************************)
\* payload === null || !payload instanceof Object
invalidMultipartPayload(payload) == payload = JSNull \/ InstanceofObject(Not(payload))

checkMultipart(payload, payloadTag) ==
    IF invalidMultipartPayload(payload)
    THEN [ok |-> FALSE,
          error |-> Throw("Error", "Invalid payload for Messenger Send API: object")]
    ELSE IF IsNullish(payload)
    THEN [ok |-> FALSE,
          error |-> Throw("TypeError", "Cannot call method hasOwnProperty of undefined")]
    ELSE IF recipientMissing(payload)
    THEN [ok |-> FALSE,
          error |-> Throw("Error",
              "Invalid payload for Messenger Send API: recipient missing!")]
    ELSE IF TypeOf(payloadTag) = "string"
    THEN [ok |-> TRUE, payload |-> SetProperty(payload, "tag", payloadTag)]
    ELSE [ok |-> TRUE, payload |-> payload]

\* one form part per own property of the payload
multipartPart(value) ==
    IF value.t = "MultipartStream"
    THEN IF value.stream.kind = "text"
         THEN [part |-> "TextPart", stream |-> value.stream, charset |-> "utf-8",
               filename |-> value.name]
         ELSE [part |-> "BinaryPart", stream |-> value.stream, filename |-> value.name]
    ELSE IF InstanceofObject(value)
    THEN [part |-> "TextPart", text |-> JSONStringify(value), charset |-> "utf-8"]
    ELSE [part |-> "TextPart", text |-> JSString(value), charset |-> "utf-8"]

multipartRequest(graphEndpoint, payload) ==
    [url |-> FB_API_URL \o graphEndpoint \o "?access_token=" \o TOKEN,
     method |-> "POST",
     data |-> [name \in DOMAIN payload.fields |-> multipartPart(payload.fields[name])],
     contentType |-> "multipart/form-data"]

\* the names of the payload that hold a MultipartStream
uploadNames(payload) ==
    {name \in DOMAIN payload.fields : payload.fields[name].t = "MultipartStream"}

\* the streams of the payload's uploads as the caller hands them over: open, the
\* MultipartStream constructor having opened them
openStreams(payload) ==
    [source \in {payload.fields[name].stream.source : name \in uploadNames(payload)} |->
        [closed |-> FALSE, closes |-> 0]]

\* the loop of the finally block: for each name that holds a MultipartStream,
\* stream.close() unless stream.closed()
RECURSIVE closeStreams(_, _, _)
closeStreams(streams, payload, names) ==
    IF names = {}
    THEN streams
    ELSE LET name == CHOOSE n \in names : TRUE
             source == payload.fields[name].stream.source
         IN closeStreams(
                IF ~streams[source].closed
                THEN [streams EXCEPT ![source] =
                        [closed |-> TRUE, closes |-> @.closes + 1]]
                ELSE streams,
                payload, names \ {name})

\* the streams closed only after an exchange that succeeded
streamsClosedOnSuccess(payload, x) ==
    IF Exchanged(x).kind = "return"
    THEN closeStreams(openStreams(payload), payload, uploadNames(payload))
    ELSE openStreams(payload)

\* try { ... } finally { ... }: the streams after the exchange x, whatever it was
streamsAfter(payload, x) ==
    closeStreams(openStreams(payload), payload, uploadNames(payload))

\* the multipart call queued like a JSON call
requestMultipartQueued(buffer, graphEndpoint, payload, payloadTag, x) ==
    LET checked == checkMultipart(payload, payloadTag) IN
    IF ~checked.ok
    THEN Effect(checked.error, <<>>, buffer)
    ELSE Effect(Return(JSUndefined), <<>>,
                pushRequest(buffer, subRequest(graphEndpoint, checked.payload, Str("POST"))))

_requestMultipart(buffer, graphEndpoint, payload, payloadTag, x) ==
    LET checked == checkMultipart(payload, payloadTag) IN
    IF ~checked.ok
    THEN [Effect(checked.error, <<>>, buffer) EXCEPT
            !.streams = IF payload.t = "object" THEN openStreams(payload) ELSE NoStreams]
    ELSE [Effect(Exchanged(x), <<multipartRequest(graphEndpoint, checked.payload)>>,
                 buffer) EXCEPT
            !.streams = streamsAfter(checked.payload, x)]

(***************************************************************************)
(* sendAttachment: an attachment by URL goes the JSON way, an upload the   *)
(* multipart way.                                                          *)
(***************************************************************************)
\* new MultipartStream(name, source) for a binary source
MultipartStream(name, source) ==
    [t |-> "MultipartStream", name |-> Str(name),
     stream |-> [t |-> "Stream", kind |-> "binary", source |-> source]]

\* strings.isUrl(s) of ringo/utils/strings, on the strings of the model
UrlStrings == {"http://example.org/photo.jpg"}
\* every string taken for a URL
isUrlOfAnyString(s) == TRUE
isUrl(s) == s \in UrlStrings

\* the default taken whatever was passed
notificationTypeDefaulted(notificationType) == NOTIFICATION_DEFAULT

\* notificationType || NOTIFICATION_DEFAULT
notificationTypeOf(notificationType) == OrElse(notificationType, NOTIFICATION_DEFAULT)

\* the attachment payload: is_reusable when reusable is a boolean, url when given
attachmentPayload(reusable, url) ==
    Obj((IF TypeOf(reusable) = "boolean"
         THEN [is_reusable |-> Bool(IF reusable = Bool("true") THEN "true" ELSE "false")]
         ELSE NoFields)
        @@ (IF url = JSUndefined THEN NoFields ELSE [url |-> url]))

\* the message payload sendAttachment builds
attachmentData(type, id, reusable, quickReplies, notificationType, url) ==
    Obj([recipient |-> Obj([id |-> id]),
         message |-> Obj([attachment |-> Obj([type |-> Str(type),
                                              payload |-> attachmentPayload(reusable, url)])]
                         @@ (IF quickReplies.t = "array"
                             THEN [quick_replies |-> quickReplies] ELSE NoFields)),
         notification_type |-> notificationTypeOf(notificationType)])

sendAttachment(batch, buffer, type, id, attachment, reusable, quickReplies, notificationType, tag, x) ==
    IF TypeOf(attachment) = "string" /\ isUrl(attachment.v)
    THEN _request(batch, buffer, "me/messages",
                  attachmentData(type, id, reusable, quickReplies, notificationType,
                                 attachment),
                  JSNull, Str("POST"), tag, x)
    ELSE IF attachment.t = "MultipartStream"
    THEN _requestMultipart(buffer, "me/messages",
                  SetProperty(attachmentData(type, id, reusable, quickReplies,
                                             notificationType, JSUndefined),
                              "filedata", attachment),
                  tag, x)
    ELSE Effect(Throw("Error", "FBMessenger attachment must be an URL or MultipartStream!"),
                <<>>, buffer)

(***************************************************************************)
(* _batchRequest and sendBatch: the flush of the buffer.                   *)
(***************************************************************************)
\* encodeURIComponent(x) of a string x
encodeURIComponent(x) == [t |-> "string", uriEncoded |-> x]

\* the body of a POST sub-request: key=value pairs joined by &
formBody(body) ==
    [t |-> "string",
     form |-> [key \in DOMAIN body.fields |->
                 encodeURIComponent(IF TypeOf(body.fields[key]) = "object"
                                    THEN JSONStringify(body.fields[key])
                                    ELSE JSString(body.fields[key]))]]

\* what the map over the buffer makes of one sub-request
encodeSubRequest(request) ==
    IF Truthy(request.body)
    THEN IF request.method \in {"GET", "DELETE"}
         THEN [method |-> request.method, relative_url |-> request.relative_url]
         ELSE [request EXCEPT !.body = formBody(request.body)]
    ELSE request

\* the envelope built in reverse queue order
fbRequestObjReversed(buffer) ==
    [i \in DOMAIN buffer |-> encodeSubRequest(buffer[Len(buffer) + 1 - i])]

\* batchRequestBuffer.map(...): the sub-requests of the envelope, in queue order
fbRequestObj(buffer) == [i \in DOMAIN buffer |-> encodeSubRequest(buffer[i])]

\* the batch request to the Graph API root
batchRequest(requests) ==
    [url |-> FB_API_BASE_URL,
     method |-> "POST",
     data |-> [access_token |-> TOKEN, batch |-> [t |-> "string", json |-> requests]]]

\* the buffer emptied only once the exchange has succeeded
\* only the oldest sub-request leaves the queue with a flush
bufferTailKept(buffer, x) ==
    IF buffer = <<>> THEN <<>> ELSE Tail(buffer)

bufferKeptOnFailure(buffer, x) ==
    IF Exchanged(x).kind = "return" THEN <<>> ELSE buffer

\* batchRequestBuffer.length = 0, before the exchange x
bufferAfterFlush(buffer, x) == <<>>

\* the flush without the check of the batch flag
batchRequestUnchecked(batch, buffer, x) ==
    Effect(Exchanged(x), <<batchRequest(fbRequestObj(buffer))>>,
           bufferAfterFlush(buffer, x))

_batchRequest(batch, buffer, x) ==
    IF ~batch
    THEN Effect(Throw("Error", "FBMessenger instance not configured in batch mode!"),
                <<>>, buffer)
    ELSE Effect(Exchanged(x),
                <<batchRequest(fbRequestObj(buffer))>>,
                bufferAfterFlush(buffer, x))

sendBatch(batch, buffer, x) == _batchRequest(batch, buffer, x)

(***************************************************************************)
(* The public operations.                                                  *)
(***************************************************************************)
recipientOf(id) == Obj([id |-> id])

sendSenderAction(batch, buffer, id, action, x) ==
    _request(batch, buffer, "me/messages",
             Obj([recipient |-> recipientOf(id), sender_action |-> action]),
             JSUndefined, JSUndefined, JSUndefined, x)

textMessage(id, messageText, notificationType) ==
    Obj([recipient |-> recipientOf(id),
         message |-> Obj([text |-> messageText]),
         notification_type |-> notificationTypeOf(notificationType)])

sendTextMessage(batch, buffer, id, messageText, notificationType, tag, x) ==
    _request(batch, buffer, "me/messages", textMessage(id, messageText, notificationType),
             JSNull, Str("POST"), tag, x)

sendReusableAttachment(batch, buffer, id, type, attachment, notificationType, tag, x) ==
    _request(batch, buffer, "me/messages",
             Obj([recipient |-> recipientOf(id),
                  message |-> Obj([attachment |->
                      Obj([type |-> type,
                           payload |-> Obj([attachment_id |-> attachment])])]),
                  notification_type |-> notificationTypeOf(notificationType)]),
             JSNull, Str("POST"), tag, x)

sendImageAttachment(batch, buffer, id, image, reusable, notificationType, tag, x) ==
    sendAttachment(batch, buffer, "image", id, image, reusable, JSNull,
                   notificationType, tag, x)

sendAudioAttachment(batch, buffer, id, audio, reusable, notificationType, tag, x) ==
    sendAttachment(batch, buffer, "audio", id, audio, reusable, JSNull,
                   notificationType, tag, x)

sendVideoAttachment(batch, buffer, id, video, reusable, notificationType, tag, x) ==
    sendAttachment(batch, buffer, "video", id, video, reusable, JSNull,
                   notificationType, tag, x)

sendFileAttachment(batch, buffer, id, file, reusable, notificationType, tag, x) ==
    sendAttachment(batch, buffer, "file", id, file, reusable, JSNull,
                   notificationType, tag, x)

\* a message whose attachment is a template with the given payload
templateMessage(id, payload, notificationType) ==
    Obj([recipient |-> recipientOf(id),
         message |-> Obj([attachment |-> Obj([type |-> Str("template"),
                                              payload |-> payload])]),
         notification_type |-> notificationTypeOf(notificationType)])

sendGenericTemplate(batch, buffer, id, elements, notificationType, tag, x) ==
    _request(batch, buffer, "me/messages",
             templateMessage(id,
                 Obj([template_type |-> Str("generic"), elements |-> elements]),
                 notificationType),
             JSNull, Str("POST"), tag, x)

sendButtonTemplate(batch, buffer, id, text, buttons, notificationType, tag, x) ==
    _request(batch, buffer, "me/messages",
             templateMessage(id,
                 Obj([template_type |-> Str("button"), text |-> text,
                      buttons |-> buttons]),
                 notificationType),
             JSNull, Str("POST"), tag, x)

sendAdvancedTemplate(batch, buffer, id, payload, notificationType, tag, x) ==
    _request(batch, buffer, "me/messages",
             templateMessage(id, payload, notificationType),
             JSNull, Str("POST"), tag, x)

\* the result of a call whose value the caller drops (no `return`)
withoutReturn(effect) ==
    IF effect.result.kind = "return"
    THEN [effect EXCEPT !.result = Return(JSUndefined)]
    ELSE effect

sendQuickReplies(batch, buffer, id, attachmentOrText, quickReplies, reusable, notificationType, tag, x) ==
    IF TypeOf(attachmentOrText) = "string"
    THEN _request(batch, buffer, "me/messages",
                  Obj([recipient |-> recipientOf(id),
                       message |-> Obj([text |-> attachmentOrText,
                                        quick_replies |-> quickReplies]),
                       notification_type |-> notificationTypeOf(notificationType)]),
                  JSNull, Str("POST"), tag, x)
    ELSE IF attachmentOrText.t = "MultipartStream"
    THEN withoutReturn(
             sendAttachment(batch, buffer, "image", id, attachmentOrText, reusable,
                            quickReplies, notificationType, tag, x))
    ELSE _request(batch, buffer, "me/messages",
                  Obj([recipient |-> recipientOf(id),
                       message |-> Obj([attachment |-> attachmentOrText]),
                       notification_type |-> notificationTypeOf(notificationType)]),
                  JSNull, Str("POST"), tag, x)

\* fields.join(",")
RECURSIVE join(_)
join(items) ==
    IF Len(items) = 0 THEN ""
    ELSE IF Len(items) = 1 THEN JSString(items[1]).v
    ELSE JSString(items[1]).v \o "," \o join(Tail(items))

getUserProfile(batch, buffer, userId, fields, x) ==
    _request(batch, buffer, userId, JSNull,
             Str("&fields=" \o (IF fields.t = "array" THEN join(fields.items)
                                ELSE "first_name,last_name,profile_pic,locale,timezone,gender")),
             Str("GET"), JSUndefined, x)

\* the countries sent with every audience type
setAudienceTypeWithCountries(batch, buffer, audienceType, countries, x) ==
    IF audienceType \in {Str("none"), Str("all"), Str("custom")}
    THEN _request(batch, buffer, "me/messenger_profile",
                  Obj([target_audience |-> Obj([audience_type |-> audienceType,
                                                countries |-> countries])]),
                  JSUndefined, JSUndefined, JSUndefined, x)
    ELSE Effect(Throw("Error", "Invalid audience type " \o JSString(audienceType).v),
                <<>>, buffer)

\* switch (audienceType) { case "none": case "all": ... case "custom": ... } throw
setAudienceType(batch, buffer, audienceType, countries, x) ==
    IF audienceType \in {Str("none"), Str("all")}
    THEN _request(batch, buffer, "me/messenger_profile",
                  Obj([target_audience |-> Obj([audience_type |-> audienceType])]),
                  JSUndefined, JSUndefined, JSUndefined, x)
    ELSE IF audienceType = Str("custom")
    THEN _request(batch, buffer, "me/messenger_profile",
                  Obj([target_audience |-> Obj([audience_type |-> audienceType,
                                                countries |-> countries])]),
                  JSUndefined, JSUndefined, JSUndefined, x)
    ELSE Effect(Throw("Error", "Invalid audience type " \o JSString(audienceType).v),
                <<>>, buffer)

\* the fields sent with the default method
deleteProfileFieldsByPost(batch, buffer, fields, x) ==
    _request(batch, buffer, "me/messenger_profile", Obj([fields |-> fields]),
             JSNull, JSUndefined, JSUndefined, x)

deleteProfileFields(batch, buffer, fields, x) ==
    _request(batch, buffer, "me/messenger_profile", Obj([fields |-> fields]),
             JSNull, Str("DELETE"), JSUndefined, x)

\* uploadAttachment(type, url), which testAttachmentUpload.js calls: the upload
\* of a reusable attachment by URL, answered with the id of the attachment
uploadAttachment(batch, buffer, type, url, x) ==
    LET e == _request(batch, buffer, "me/message_attachments",
                      Obj([message |->
                             Obj([attachment |->
                                    Obj([type |-> type,
                                         payload |-> Obj([url |-> url,
                                                          is_reusable |-> Bool("true")])])])]),
                      JSNull, Str("POST"), JSUndefined, x)
    IN IF e.result.kind = "return" /\ ~IsNullish(e.result.value)
       THEN [e EXCEPT !.result =
                Return(IF HasOwnProperty(e.result.value, "attachment_id")
                       THEN e.result.value.fields.attachment_id ELSE JSUndefined)]
       ELSE e

(***************************************************************************)
(* The inputs of the model.                                                *)
(***************************************************************************)
U1 == Str("U1")
Tags == {JSUndefined, Str("ISSUE_RESOLUTION"), Num("42")}
StringTags == {JSUndefined, Str("ISSUE_RESOLUTION")}
NotificationTypes == {JSUndefined, JSNull, Str(""), Str("NO_PUSH")}
AttachmentTypes == {"image", "audio", "video", "file"}
Upload == MultipartStream("photo.jpg", "/tmp/photo.jpg")
Attachments == {Str("http://example.org/photo.jpg"), Str("photo.jpg"), Upload, Num("7")}
QuickReplies ==
    Arr(<<Obj([content_type |-> Str("text"), title |-> Str("Cool!"),
               payload |-> Str("quick:cool")])>>)

RequestCall(graphEndpoint, payload, queryString, method, payloadTag) ==
    [graphEndpoint |-> graphEndpoint, payload |-> payload, queryString |-> queryString,
     method |-> method, payloadTag |-> payloadTag]

\* the calls of _request the model makes: a text message with each tag, payloads
\* that lack the recipient, the message, or carry message and sender_action both
\* or a sender_action that is undefined, and a GET and a DELETE with and without
\* a tag
RequestCalls ==
    {RequestCall("me/messages", textMessage(U1, Str("hi"), JSUndefined), JSNull,
                 Str("POST"), tag) : tag \in Tags}
    \cup {RequestCall("me/messages", payload, JSUndefined, JSUndefined, JSUndefined) :
            payload \in {JSNull,
                         Obj([recipient |-> recipientOf(U1)]),
                         Obj([message |-> Obj([text |-> Str("hi")])]),
                         Obj([recipient |-> recipientOf(U1),
                              message |-> Obj([text |-> Str("hi")]),
                              sender_action |-> Str("typing_on")]),
                         Obj([recipient |-> recipientOf(U1),
                              sender_action |-> JSUndefined])}}
    \cup {RequestCall("U1", JSNull, Str("&fields=locale"), Str("GET"), JSUndefined)}
    \cup {RequestCall("me/messenger_profile",
                      Obj([fields |-> Arr(<<Str("home_url")>>)]), JSNull,
                      Str("DELETE"), tag) : tag \in StringTags}

\* the calls of _requestMultipart the model makes
MultipartCalls ==
    {[graphEndpoint |-> "me/messages", payload |-> payload, payloadTag |-> JSUndefined] :
        payload \in {JSNull, JSUndefined,
                     Obj([filedata |-> Upload]),
                     Obj([recipient |-> recipientOf(U1), filedata |-> Upload]),
                     Obj([recipient |-> recipientOf(U1), filedata |-> Upload,
                          preview |-> Upload])}}

(***************************************************************************)
(* The state machine. Every action is one call on the client; the remote   *)
(* side picks the exchange of a call that issues an HTTP request.          *)
(***************************************************************************)
\* new FBMessenger(pageAccessToken, batched)
Init ==
    /\ BATCH_MODE \in BOOLEAN
    /\ batchRequestBuffer = <<>>
    /\ lastCall = [op |-> "FBMessenger", args |-> <<>>, before |-> <<>>,
                   http |-> <<>>, exchange |-> NoExchange,
                   result |-> Return(JSUndefined), streams |-> NoStreams]

\* the exchange is the remote side's choice only when a request is issued
Chosen(x, e) == e.http = <<>> => x = FailedExchange

\* the call op(args) with effect e under exchange x: the buffer it leaves and
\* its record
Called(op, args, x, e) ==
    /\ Len(e.buffer) <= MaxQueue
    /\ batchRequestBuffer' = e.buffer
    /\ lastCall' = [op |-> op, args |-> args, before |-> batchRequestBuffer,
                    http |-> e.http,
                    exchange |-> IF e.http = <<>> THEN NoExchange ELSE x,
                    result |-> e.result, streams |-> e.streams]

Request ==
    \E c \in RequestCalls, x \in Exchanges :
        LET e == _request(BATCH_MODE, batchRequestBuffer, c.graphEndpoint, c.payload,
                          c.queryString, c.method, c.payloadTag, x) IN
        /\ Chosen(x, e)
        /\ Called("_request", c, x, e)
        /\ UNCHANGED BATCH_MODE

RequestMultipart ==
    \E c \in MultipartCalls, x \in Exchanges :
        LET e == _requestMultipart(batchRequestBuffer, c.graphEndpoint, c.payload,
                                   c.payloadTag, x) IN
        /\ Chosen(x, e)
        /\ Called("_requestMultipart", c, x, e)
        /\ UNCHANGED BATCH_MODE

SendAttachment ==
    \E attachment \in Attachments, x \in Exchanges :
    \E tag \in (IF attachment = Upload THEN Tags ELSE {JSUndefined}) :
    \E type \in (IF attachment \in {Str("photo.jpg"), Num("7")}
                 THEN AttachmentTypes ELSE {"image"}) :
        LET e == sendAttachment(BATCH_MODE, batchRequestBuffer, type, U1, attachment,
                                JSUndefined, JSNull, JSUndefined, tag, x) IN
        /\ Chosen(x, e)
        /\ Called("sendAttachment",
                  [type |-> type, id |-> U1, attachment |-> attachment,
                   reusable |-> JSUndefined, quickReplies |-> JSNull,
                   notificationType |-> JSUndefined, tag |-> tag], x, e)
        /\ UNCHANGED BATCH_MODE

SendBatch ==
    \E x \in Exchanges :
        LET e == sendBatch(BATCH_MODE, batchRequestBuffer, x) IN
        /\ Chosen(x, e)
        /\ Called("sendBatch", <<>>, x, e)
        /\ UNCHANGED BATCH_MODE

Next == Request \/ RequestMultipart \/ SendAttachment \/ SendBatch

Spec == Init /\ [][Next]_vars

(***************************************************************************)
(* The public operations on a client that sends immediately.               *)
(***************************************************************************)
Elements == Arr(<<Obj([title |-> Str("Alles steht Kopf")])>>)
Buttons ==
    Arr(<<Obj([type |-> Str("postback"), title |-> Str("Get More Info"),
               payload |-> Str("get_more")])>>)
ListPayload == Obj([template_type |-> Str("list"), elements |-> Elements])
ImageAttachment ==
    Obj([type |-> Str("image"),
         payload |-> Obj([url |-> Str("http://example.org/photo.jpg")])])

InitOps ==
    /\ BATCH_MODE = FALSE
    /\ batchRequestBuffer = <<>>
    /\ lastCall = [op |-> "FBMessenger", args |-> <<>>, before |-> <<>>,
                   http |-> <<>>, exchange |-> NoExchange,
                   result |-> Return(JSUndefined), streams |-> NoStreams]

SendSenderAction ==
    \E action \in {Str("typing_on"), JSUndefined}, x \in Exchanges :
        LET e == sendSenderAction(BATCH_MODE, batchRequestBuffer, U1, action, x) IN
        /\ Chosen(x, e)
        /\ Called("sendSenderAction", [id |-> U1, action |-> action], x, e)
        /\ UNCHANGED BATCH_MODE

SendTextMessage ==
    \E notificationType \in NotificationTypes, tag \in StringTags, x \in Exchanges :
        LET e == sendTextMessage(BATCH_MODE, batchRequestBuffer, U1, Str("hi"),
                                 notificationType, tag, x) IN
        /\ Chosen(x, e)
        /\ Called("sendTextMessage",
                  [id |-> U1, messageText |-> Str("hi"),
                   notificationType |-> notificationType, tag |-> tag], x, e)
        /\ UNCHANGED BATCH_MODE

SendReusableAttachment ==
    \E notificationType \in NotificationTypes, x \in Exchanges :
        LET e == sendReusableAttachment(BATCH_MODE, batchRequestBuffer, U1, Str("image"),
                                        Str("1234567890"), notificationType,
                                        JSUndefined, x) IN
        /\ Chosen(x, e)
        /\ Called("sendReusableAttachment",
                  [id |-> U1, type |-> Str("image"), attachment |-> Str("1234567890"),
                   notificationType |-> notificationType, tag |-> JSUndefined], x, e)
        /\ UNCHANGED BATCH_MODE

SendImageAttachment ==
    \E image \in Attachments, reusable \in {JSUndefined, Bool("true")},
       notificationType \in NotificationTypes, x \in Exchanges :
        LET e == sendImageAttachment(BATCH_MODE, batchRequestBuffer, U1, image, reusable,
                                     notificationType, JSUndefined, x) IN
        /\ Chosen(x, e)
        /\ Called("sendImageAttachment",
                  [id |-> U1, attachment |-> image, reusable |-> reusable,
                   notificationType |-> notificationType, tag |-> JSUndefined], x, e)
        /\ UNCHANGED BATCH_MODE

SendAudioAttachment ==
    \E audio \in Attachments, notificationType \in NotificationTypes, x \in Exchanges :
        LET e == sendAudioAttachment(BATCH_MODE, batchRequestBuffer, U1, audio,
                                     JSUndefined, notificationType, JSUndefined, x) IN
        /\ Chosen(x, e)
        /\ Called("sendAudioAttachment",
                  [id |-> U1, attachment |-> audio, reusable |-> JSUndefined,
                   notificationType |-> notificationType, tag |-> JSUndefined], x, e)
        /\ UNCHANGED BATCH_MODE

SendVideoAttachment ==
    \E video \in Attachments, notificationType \in NotificationTypes, x \in Exchanges :
        LET e == sendVideoAttachment(BATCH_MODE, batchRequestBuffer, U1, video,
                                     JSUndefined, notificationType, JSUndefined, x) IN
        /\ Chosen(x, e)
        /\ Called("sendVideoAttachment",
                  [id |-> U1, attachment |-> video, reusable |-> JSUndefined,
                   notificationType |-> notificationType, tag |-> JSUndefined], x, e)
        /\ UNCHANGED BATCH_MODE

SendFileAttachment ==
    \E file \in Attachments, notificationType \in NotificationTypes, x \in Exchanges :
        LET e == sendFileAttachment(BATCH_MODE, batchRequestBuffer, U1, file,
                                    JSUndefined, notificationType, JSUndefined, x) IN
        /\ Chosen(x, e)
        /\ Called("sendFileAttachment",
                  [id |-> U1, attachment |-> file, reusable |-> JSUndefined,
                   notificationType |-> notificationType, tag |-> JSUndefined], x, e)
        /\ UNCHANGED BATCH_MODE

SendGenericTemplate ==
    \E notificationType \in NotificationTypes, x \in Exchanges :
        LET e == sendGenericTemplate(BATCH_MODE, batchRequestBuffer, U1, Elements,
                                     notificationType, JSUndefined, x) IN
        /\ Chosen(x, e)
        /\ Called("sendGenericTemplate",
                  [id |-> U1, elements |-> Elements,
                   notificationType |-> notificationType, tag |-> JSUndefined], x, e)
        /\ UNCHANGED BATCH_MODE

SendButtonTemplate ==
    \E notificationType \in NotificationTypes, x \in Exchanges :
        LET e == sendButtonTemplate(BATCH_MODE, batchRequestBuffer, U1, Str("Hello!"),
                                    Buttons, notificationType, JSUndefined, x) IN
        /\ Chosen(x, e)
        /\ Called("sendButtonTemplate",
                  [id |-> U1, text |-> Str("Hello!"), buttons |-> Buttons,
                   notificationType |-> notificationType, tag |-> JSUndefined], x, e)
        /\ UNCHANGED BATCH_MODE

SendAdvancedTemplate ==
    \E notificationType \in NotificationTypes, x \in Exchanges :
        LET e == sendAdvancedTemplate(BATCH_MODE, batchRequestBuffer, U1, ListPayload,
                                      notificationType, JSUndefined, x) IN
        /\ Chosen(x, e)
        /\ Called("sendAdvancedTemplate",
                  [id |-> U1, payload |-> ListPayload,
                   notificationType |-> notificationType, tag |-> JSUndefined], x, e)
        /\ UNCHANGED BATCH_MODE

SendQuickReplies ==
    \E attachmentOrText \in {Str("Pick one"), Upload, ImageAttachment},
       notificationType \in NotificationTypes, x \in Exchanges :
        LET e == sendQuickReplies(BATCH_MODE, batchRequestBuffer, U1, attachmentOrText,
                                  QuickReplies, JSUndefined, notificationType,
                                  JSUndefined, x) IN
        /\ Chosen(x, e)
        /\ Called("sendQuickReplies",
                  [id |-> U1, attachmentOrText |-> attachmentOrText,
                   quickReplies |-> QuickReplies, reusable |-> JSUndefined,
                   notificationType |-> notificationType, tag |-> JSUndefined], x, e)
        /\ UNCHANGED BATCH_MODE

GetUserProfile ==
    \E fields \in {JSUndefined, Arr(<<Str("locale"), Str("timezone")>>)},
       x \in Exchanges :
        LET e == getUserProfile(BATCH_MODE, batchRequestBuffer, "U1", fields, x) IN
        /\ Chosen(x, e)
        /\ Called("getUserProfile", [userId |-> U1, fields |-> fields], x, e)
        /\ UNCHANGED BATCH_MODE

DeleteProfileFields ==
    \E fields \in {Arr(<<Str("home_url")>>), Arr(<<Str("whitelisted_domains")>>)},
       x \in Exchanges \cup {Exchange(200, BODY_RESULT)} :
        LET e == deleteProfileFields(BATCH_MODE, batchRequestBuffer, fields, x) IN
        /\ Chosen(x, e)
        /\ Called("deleteProfileFields", [fields |-> fields], x, e)
        /\ UNCHANGED BATCH_MODE

\* the audience types and country objects setAudienceType is called with
AudienceTypes == {Str("all"), Str("none"), Str("custom"), Str("everyone"), JSUndefined}
Whitelist == Obj([whitelist |-> Arr(<<Str("DE"), Str("AT"), Str("CH")>>)])

SetAudienceType ==
    \E audienceType \in AudienceTypes, countries \in {JSUndefined, Whitelist},
       x \in Exchanges \cup {Exchange(200, BODY_RESULT)} :
        LET e == setAudienceType(BATCH_MODE, batchRequestBuffer, audienceType,
                                 countries, x) IN
        /\ Chosen(x, e)
        /\ Called("setAudienceType",
                  [audienceType |-> audienceType, countries |-> countries], x, e)
        /\ UNCHANGED BATCH_MODE

UploadAttachment ==
    \E type \in {Str("image"), Str("video")},
       x \in Exchanges \cup {Exchange(200, BODY_ATTACHMENT)} :
        LET e == uploadAttachment(BATCH_MODE, batchRequestBuffer, type,
                                  Str("http://example.org/photo.jpg"), x) IN
        /\ Chosen(x, e)
        /\ Called("uploadAttachment",
                  [type |-> type, url |-> Str("http://example.org/photo.jpg")], x, e)
        /\ UNCHANGED BATCH_MODE

NextOps ==
    \/ SendSenderAction
    \/ SendTextMessage
    \/ SendReusableAttachment
    \/ SendImageAttachment
    \/ SendAudioAttachment
    \/ SendVideoAttachment
    \/ SendFileAttachment
    \/ SendGenericTemplate
    \/ SendButtonTemplate
    \/ SendAdvancedTemplate
    \/ SendQuickReplies
    \/ GetUserProfile
    \/ DeleteProfileFields
    \/ UploadAttachment
    \/ SetAudienceType

SpecOps == InitOps /\ [][NextOps]_vars

(***************************************************************************)
(* utils.js: the classifiers of webhook callbacks. Each is a function of   *)
(* its arguments; reading a property of null or undefined raises a         *)
(* TypeError.                                                              *)
(***************************************************************************)
\* o[k], for an o that is neither null nor undefined
GetProperty(o, k) == IF HasOwnProperty(o, k) THEN o.fields[k] ELSE JSUndefined

\* Array.isArray(x)
IsArray(x) == x.t = "array"

True == Bool("true")
False == Bool("false")
BoolOf(b) == IF b THEN True ELSE False

\* the error of reading the property k of null or undefined
PropertyOfNull(k) == Throw("TypeError", "Cannot read property " \o k \o " of null")

\* entries.filter(function(entry) { return entry.id === pageId; })
filterEntries(entries, pageId) ==
    LET sameId(entry) == GetProperty(entry, "id") = pageId IN
    IF \E i \in DOMAIN entries : IsNullish(entries[i])
    THEN PropertyOfNull("id")
    ELSE Return(Arr(SelectSeq(entries, sameId)))

\* the entries of any callback that has an entry array, whatever its object
getEntriesOfAnyObject(callbackData, pageId) ==
    IF /\ ~IsNullish(callbackData)
       /\ HasOwnProperty(callbackData, "object")
       /\ IsArray(GetProperty(callbackData, "entry"))
    THEN filterEntries(GetProperty(callbackData, "entry").items, pageId)
    ELSE Return(Arr(<<>>))

getEntriesForPage(callbackData, pageId) ==
    IF /\ ~IsNullish(callbackData)
       /\ HasOwnProperty(callbackData, "object")
       /\ GetProperty(callbackData, "object") = Str("page")
       /\ IsArray(GetProperty(callbackData, "entry"))
    THEN filterEntries(GetProperty(callbackData, "entry").items, pageId)
    ELSE Return(Arr(<<>>))

\* Array.isArray(entry.messaging) ? entry.messaging : []
messagingOf(entry) ==
    IF IsArray(GetProperty(entry, "messaging"))
    THEN GetProperty(entry, "messaging").items ELSE <<>>

\* Array.prototype.concat.apply([], arrays): the items of each array in turn
RECURSIVE concatMessaging(_)
concatMessaging(entries) ==
    IF entries = <<>> THEN <<>>
    ELSE messagingOf(Head(entries)) \o concatMessaging(Tail(entries))

\* the messaging arrays joined last entry first
getMessagingLastFirst(callbackData, pageId) ==
    LET entries == getEntriesForPage(callbackData, pageId) IN
    IF entries.kind = "throw" THEN entries
    ELSE Return(Arr(concatMessaging(
            [i \in DOMAIN entries.value.items |->
                entries.value.items[Len(entries.value.items) + 1 - i]])))

getMessagingForPage(callbackData, pageId) ==
    LET entries == getEntriesForPage(callbackData, pageId) IN
    IF entries.kind = "throw" THEN entries
    ELSE Return(Arr(concatMessaging(entries.value.items)))

\* the callback taken for a messaging callback whatever its entry is
isMessagingCallbackOfAnyEntry(callbackData) ==
    Return(BoolOf(/\ ~IsNullish(callbackData)
                  /\ TypeOf(callbackData) = "object"
                  /\ HasOwnProperty(callbackData, "object")))

isMessagingCallback(callbackData) ==
    Return(BoolOf(/\ ~IsNullish(callbackData)
                  /\ TypeOf(callbackData) = "object"
                  /\ HasOwnProperty(callbackData, "object")
                  /\ IsArray(GetProperty(callbackData, "entry"))))

isEcho(callbackEntry) ==
    IF IsNullish(callbackEntry) \/ ~HasOwnProperty(callbackEntry, "message")
    THEN Return(False)
    ELSE IF IsNullish(GetProperty(callbackEntry, "message"))
    THEN PropertyOfNull("is_echo")
    ELSE Return(BoolOf(
            GetProperty(GetProperty(callbackEntry, "message"), "is_echo") = True))

\* callbackEntry.hasOwnProperty(field) && callbackEntry[field].hasOwnProperty(key)
hasFieldWith(callbackEntry, field, key) ==
    IF ~HasOwnProperty(callbackEntry, field)
    THEN Return(False)
    ELSE IF IsNullish(GetProperty(callbackEntry, field))
    THEN PropertyOfNull("hasOwnProperty")
    ELSE Return(BoolOf(HasOwnProperty(GetProperty(callbackEntry, field), key)))

\* the echo test of isMessage left out
isMessageOfAnyEcho(callbackEntry, allowEcho) ==
    IF IsNullish(callbackEntry)
    THEN Return(False)
    ELSE hasFieldWith(callbackEntry, "message", "mid")

isMessage(callbackEntry, allowEcho) ==
    IF IsNullish(callbackEntry)
    THEN Return(False)
    ELSE LET echo == IF allowEcho = True THEN Return(False) ELSE isEcho(callbackEntry) IN
         IF echo.kind = "throw" THEN echo
         ELSE IF echo.value = True THEN Return(False)
         ELSE hasFieldWith(callbackEntry, "message", "mid")

isQuickReply(callbackEntry, allowEcho) ==
    LET message == isMessage(callbackEntry, OrElse(allowEcho, False)) IN
    IF message.kind = "throw" \/ message.value = False
    THEN message
    ELSE Return(BoolOf(HasOwnProperty(GetProperty(callbackEntry, "message"),
                                      "quick_reply")))

\* callbackEntry != null && callbackEntry.hasOwnProperty(field) && ...
classify(callbackEntry, field, key) ==
    IF IsNullish(callbackEntry)
    THEN Return(False)
    ELSE hasFieldWith(callbackEntry, field, key)

isPostback(callbackEntry) == classify(callbackEntry, "postback", "payload")
isAuthentication(callbackEntry) == classify(callbackEntry, "optin", "ref")
isAccountLinking(callbackEntry) == classify(callbackEntry, "account_linking", "status")
isDelivery(callbackEntry) == classify(callbackEntry, "delivery", "mids")
isRead(callbackEntry) == classify(callbackEntry, "read", "watermark")

isReferral(callbackEntry) ==
    IF IsNullish(callbackEntry) \/ ~HasOwnProperty(callbackEntry, "referral")
    THEN Return(False)
    ELSE IF IsNullish(GetProperty(callbackEntry, "referral"))
    THEN PropertyOfNull("ref")
    ELSE Return(BoolOf(
            ~IsNullish(GetProperty(GetProperty(callbackEntry, "referral"), "ref"))))

\* strings.isNumeric(s) of ringo/utils/strings, on the strings of the model: the
\* strings made of digits only
NumericStrings == {"123456", "1234567890123456"}
isNumeric(s) == s \in NumericStrings

\* the type test left out
isValidFacebookIdOfAnyType(id) == Return(BoolOf(isNumeric(id.v)))

\* typeof id == "string" && strings.isNumeric(id)
isValidFacebookId(id) == Return(BoolOf(TypeOf(id) = "string" /\ isNumeric(id.v)))

(***************************************************************************)
(* The classifiers as a state machine: every action is one call of one     *)
(* function of utils.js on a decoded callback or on one of its entries.    *)
(***************************************************************************)
MaxEntries == 2

MessageOf(fields) == Obj([message |-> Obj(fields)])
TextEvent == MessageOf([mid |-> Str("mid.1"), text |-> Str("hi")])
EchoEvent == MessageOf([mid |-> Str("mid.2"), is_echo |-> True])
NoEchoEvent == MessageOf([mid |-> Str("mid.3"), is_echo |-> False])
QuickReplyEvent ==
    MessageOf([mid |-> Str("mid.4"), quick_reply |-> Obj([payload |-> Str("quick:cool")])])
EchoQuickReplyEvent ==
    MessageOf([mid |-> Str("mid.5"), is_echo |-> True,
               quick_reply |-> Obj([payload |-> Str("quick:cool")])])
PostbackEvent == Obj([postback |-> Obj([payload |-> Str("start")])])

\* the entries of the messaging arrays the classifiers are called on
CallbackEntries ==
    {JSNull, JSUndefined, Obj(NoFields),
     TextEvent, EchoEvent, NoEchoEvent, QuickReplyEvent, EchoQuickReplyEvent,
     MessageOf([text |-> Str("hi")]),
     Obj([message |-> JSNull]),
     PostbackEvent,
     Obj([postback |-> Obj(NoFields)]),
     Obj([postback |-> JSNull]),
     Obj([optin |-> Obj([ref |-> Str("pass")])]),
     Obj([optin |-> JSNull]),
     Obj([account_linking |-> Obj([status |-> Str("linked")])]),
     Obj([delivery |-> Obj([mids |-> Arr(<<Str("mid.1")>>)])]),
     Obj([delivery |-> JSNull]),
     Obj([read |-> Obj([watermark |-> Num("1458668856253")])]),
     Obj([read |-> JSNull]),
     Obj([referral |-> Obj([ref |-> Str("ad")])]),
     Obj([referral |-> Obj([ref |-> JSNull])]),
     Obj([referral |-> JSNull])}

P1 == Str("P1")
P2 == Str("P2")
PageIds == {P1, P2}

\* the entries of a callback: for either page, with and without a messaging
\* array, and null
PageEntries ==
    {Obj([id |-> P1, messaging |-> Arr(<<TextEvent, EchoEvent>>)]),
     Obj([id |-> P1, messaging |-> Arr(<<PostbackEvent>>)]),
     Obj([id |-> P2, messaging |-> Arr(<<QuickReplyEvent>>)]),
     Obj([id |-> P1]),
     JSNull}

EntryArrays ==
    {Arr(items) : items \in UNION {[1..n -> PageEntries] : n \in 0..MaxEntries}}

\* the decoded callbacks: of a page and of a user with every entry array, a page
\* callback without an entry array, a callback without object, and values that
\* are no objects
Callbacks ==
    {Obj([object |-> Str(object), entry |-> entry]) :
        object \in {"page", "user"}, entry \in EntryArrays}
    \cup {Obj([object |-> Str("page")]),
          Obj([object |-> Str("page"), entry |-> Str("none")]),
          Obj([entry |-> Arr(<<Obj([id |-> P1, messaging |-> Arr(<<TextEvent>>)])>>)]),
          JSNull, JSUndefined, Str("page")}

AllowEcho == {JSUndefined, True}

InitUtils ==
    /\ BATCH_MODE = FALSE
    /\ batchRequestBuffer = <<>>
    /\ lastCall = [op |-> "utils", args |-> <<>>, before |-> <<>>,
                   http |-> <<>>, exchange |-> NoExchange,
                   result |-> Return(JSUndefined), streams |-> NoStreams]

\* the record of the call op(args) that ended with result
Classified(op, args, result) ==
    lastCall' = [op |-> op, args |-> args, before |-> <<>>, http |-> <<>>,
                 exchange |-> NoExchange, result |-> result, streams |-> NoStreams]

GetEntriesForPage ==
    \E callbackData \in Callbacks, pageId \in PageIds :
        /\ Classified("getEntriesForPage",
                      [callbackData |-> callbackData, pageId |-> pageId],
                      getEntriesForPage(callbackData, pageId))
        /\ UNCHANGED <<BATCH_MODE, batchRequestBuffer>>

GetMessagingForPage ==
    \E callbackData \in Callbacks, pageId \in PageIds :
        /\ Classified("getMessagingForPage",
                      [callbackData |-> callbackData, pageId |-> pageId],
                      getMessagingForPage(callbackData, pageId))
        /\ UNCHANGED <<BATCH_MODE, batchRequestBuffer>>

IsMessagingCallback ==
    \E callbackData \in Callbacks :
        /\ Classified("isMessagingCallback", [callbackData |-> callbackData],
                      isMessagingCallback(callbackData))
        /\ UNCHANGED <<BATCH_MODE, batchRequestBuffer>>

IsMessage ==
    \E callbackEntry \in CallbackEntries, allowEcho \in AllowEcho :
        /\ Classified("isMessage",
                      [callbackEntry |-> callbackEntry, allowEcho |-> allowEcho],
                      isMessage(callbackEntry, allowEcho))
        /\ UNCHANGED <<BATCH_MODE, batchRequestBuffer>>

IsQuickReply ==
    \E callbackEntry \in CallbackEntries, allowEcho \in AllowEcho :
        /\ Classified("isQuickReply",
                      [callbackEntry |-> callbackEntry, allowEcho |-> allowEcho],
                      isQuickReply(callbackEntry, allowEcho))
        /\ UNCHANGED <<BATCH_MODE, batchRequestBuffer>>

IsPostback ==
    \E callbackEntry \in CallbackEntries :
        /\ Classified("isPostback", [callbackEntry |-> callbackEntry],
                      isPostback(callbackEntry))
        /\ UNCHANGED <<BATCH_MODE, batchRequestBuffer>>

IsAuthentication ==
    \E callbackEntry \in CallbackEntries :
        /\ Classified("isAuthentication", [callbackEntry |-> callbackEntry],
                      isAuthentication(callbackEntry))
        /\ UNCHANGED <<BATCH_MODE, batchRequestBuffer>>

IsAccountLinking ==
    \E callbackEntry \in CallbackEntries :
        /\ Classified("isAccountLinking", [callbackEntry |-> callbackEntry],
                      isAccountLinking(callbackEntry))
        /\ UNCHANGED <<BATCH_MODE, batchRequestBuffer>>

IsDelivery ==
    \E callbackEntry \in CallbackEntries :
        /\ Classified("isDelivery", [callbackEntry |-> callbackEntry],
                      isDelivery(callbackEntry))
        /\ UNCHANGED <<BATCH_MODE, batchRequestBuffer>>

IsRead ==
    \E callbackEntry \in CallbackEntries :
        /\ Classified("isRead", [callbackEntry |-> callbackEntry],
                      isRead(callbackEntry))
        /\ UNCHANGED <<BATCH_MODE, batchRequestBuffer>>

IsEcho ==
    \E callbackEntry \in CallbackEntries :
        /\ Classified("isEcho", [callbackEntry |-> callbackEntry],
                      isEcho(callbackEntry))
        /\ UNCHANGED <<BATCH_MODE, batchRequestBuffer>>

IsReferral ==
    \E callbackEntry \in CallbackEntries :
        /\ Classified("isReferral", [callbackEntry |-> callbackEntry],
                      isReferral(callbackEntry))
        /\ UNCHANGED <<BATCH_MODE, batchRequestBuffer>>

\* the ids isValidFacebookId is called on: strings of digits, other strings,
\* numbers and booleans
FacebookIds ==
    {Str("123456"), Str("1234567890123456"), Str("abc"), Str("12a"), Str("12.5"),
     Num("123456"), Num("0"), Bool("true")}

IsValidFacebookId ==
    \E id \in FacebookIds :
        /\ Classified("isValidFacebookId", [id |-> id], isValidFacebookId(id))
        /\ UNCHANGED <<BATCH_MODE, batchRequestBuffer>>

NextUtils ==
    \/ GetEntriesForPage
    \/ GetMessagingForPage
    \/ IsMessagingCallback
    \/ IsMessage
    \/ IsQuickReply
    \/ IsPostback
    \/ IsAuthentication
    \/ IsAccountLinking
    \/ IsDelivery
    \/ IsRead
    \/ IsEcho
    \/ IsReferral
    \/ IsValidFacebookId

SpecUtils == InitUtils /\ [][NextUtils]_vars

(***************************************************************************)
(* The demo application (test/birdiebot/routes.js): the POST handler of    *)
(* the webhook, on a client that is not in batch mode.  The k-th call of   *)
(* processText is answered with the exchange xs[k] if it reaches the client.*)
(***************************************************************************)
MaxMessaging == 3

FACEBOOK_PAGE_ID == P1

\* Date.now() at the time of the response
Now == Num("1501234567890")

\* s.toLocaleLowerCase(), on the strings of the model
toLocaleLowerCase(s) ==
    CASE s = "Hi" -> "hi"
      [] s = "GET_STARTED" -> "get_started"
      [] OTHER -> s

\* the reply processText chooses for a text: of the keywords it looks for, the
\* texts of the model contain get_started only
replyTo(text) ==
    IF text = "get_started"
    THEN Str("Welcome to the birdie test bot!")
    ELSE Str("Heyo, current time is: " \o Now.v)

\* processText(text, message): message.sender.id is read, then the reply is sent
processText(text, message, x) ==
    IF IsNullish(GetProperty(message, "sender"))
    THEN Effect(Throw("TypeError", "Cannot read property id of undefined"), <<>>, <<>>)
    ELSE sendTextMessage(FALSE, <<>>, GetProperty(GetProperty(message, "sender"), "id"),
                         replyTo(text), JSUndefined, JSUndefined, x)

\* (event[field][key] || "").toLocaleLowerCase()
textOf(event, field, key) ==
    toLocaleLowerCase(OrElse(GetProperty(GetProperty(event, field), key), Str("")).v)

\* the call of processText for an event, as the handler's record keeps it
processed(event, field, key, x) ==
    LET sent == processText(textOf(event, field, key), event, x) IN
    [event |-> event, http |-> sent.http, result |-> sent.result]

NoError == [kind |-> "none"]

\* the call of the first event followed by the calls of the rest, with the
\* error that ended them, if one did
continued(call, rest) ==
    [calls |-> <<call>> \o rest.calls,
     error |-> IF call.result.kind = "throw" THEN call.result ELSE rest.error]

\* every event handled, whatever the ones before it raised
RECURSIVE forEachPastErrors(_, _, _, _)
forEachPastErrors(events, field, key, xs) ==
    IF events = <<>>
    THEN [calls |-> <<>>, error |-> NoError]
    ELSE continued(processed(Head(events), field, key, Head(xs)),
                   forEachPastErrors(Tail(events), field, key, Tail(xs)))

\* events.forEach(function(event) { processText(...) }): an event that raises
\* ends the loop
RECURSIVE forEach(_, _, _, _)
forEach(events, field, key, xs) ==
    IF events = <<>>
    THEN [calls |-> <<>>, error |-> NoError]
    ELSE continued(processed(Head(events), field, key, Head(xs)),
                   IF processed(Head(events), field, key, Head(xs)).result.kind = "throw"
                   THEN [calls |-> <<>>, error |-> NoError]
                   ELSE forEach(Tail(events), field, key, Tail(xs)))

processMessages(messages, xs) == forEach(messages, "message", "text", xs)
processPostbacks(postbacks, xs) == forEach(postbacks, "postback", "payload", xs)

\* items.filter(fbmUtils.isMessage): filter hands the index over as allowEcho,
\* which is never true
filterMessages(items) ==
    LET kept(event) == isMessage(event, Num("0")).value = True IN
    IF \E i \in DOMAIN items : isMessage(items[i], Num("0")).kind = "throw"
    THEN PropertyOfNull("hasOwnProperty")
    ELSE Return(SelectSeq(items, kept))

\* items.filter(fbmUtils.isPostback)
filterPostbacks(items) ==
    LET kept(event) == isPostback(event).value = True IN
    IF \E i \in DOMAIN items : isPostback(items[i]).kind = "throw"
    THEN PropertyOfNull("hasOwnProperty")
    ELSE Return(SelectSeq(items, kept))

\* the body of the try block: processMessages(...), then processPostbacks(...)
processCallback(postParams, xs) ==
    LET messaging == getMessagingForPage(postParams, FACEBOOK_PAGE_ID) IN
    IF messaging.kind = "throw"
    THEN [calls |-> <<>>, error |-> messaging]
    ELSE LET messages == filterMessages(messaging.value.items) IN
         IF messages.kind = "throw"
         THEN [calls |-> <<>>, error |-> messages]
         ELSE LET m == processMessages(messages.value, xs) IN
              IF m.error # NoError
              THEN m
              ELSE LET postbacks == filterPostbacks(messaging.value.items) IN
                   IF postbacks.kind = "throw"
                   THEN [calls |-> m.calls, error |-> postbacks]
                   ELSE LET p == processPostbacks(postbacks.value,
                                     SubSeq(xs, Len(m.calls) + 1, Len(xs)))
                        IN [calls |-> m.calls \o p.calls, error |-> p.error]

\* app.post("/birdie-webhook-callback", ...): the calls of processText, what was
\* logged, and the response
postWebhook(postParams, xs) ==
    LET done == IF postParams # JSNull /\ isMessagingCallback(postParams).value = True
                THEN processCallback(postParams, xs)
                ELSE [calls |-> <<>>, error |-> NoError]
    IN [calls |-> done.calls,
        logged |-> IF postParams = JSNull \/ isMessagingCallback(postParams).value # True
                   THEN <<[message |-> "Invalid request"]>>
                   ELSE IF done.error # NoError
                   THEN <<[message |-> "Processing error!", error |-> done.error]>>
                   ELSE <<>>,
        response |-> [status |-> 200, body |-> Obj([timestamp |-> Now])]]

\* the events of a callback: a message and a postback of the user U1, and a
\* message that lacks its sender
Sender == Obj([id |-> U1])
DemoEvents ==
    {Obj([sender |-> Sender, message |-> Obj([mid |-> Str("mid.1"), text |-> Str("Hi")])]),
     Obj([message |-> Obj([mid |-> Str("mid.2"), text |-> Str("Hi")])]),
     Obj([sender |-> Sender, postback |-> Obj([payload |-> Str("GET_STARTED")])])}

\* the exchanges of the n calls of a callback: every reply accepted, but the
\* one of the call failAt, if there is one
DemoExchanges(n, failAt) ==
    [k \in 1..n |-> IF k = failAt THEN Exchange(400, BODY_ERROR)
                    ELSE Exchange(200, BODY_SUCCESS)]

\* a page callback with one entry that holds the events
DemoCallback(events) ==
    Obj([object |-> Str("page"),
         entry |-> Arr(<<Obj([id |-> FACEBOOK_PAGE_ID, messaging |-> Arr(events)])>>)])

InitDemo ==
    /\ BATCH_MODE = FALSE
    /\ batchRequestBuffer = <<>>
    /\ lastCall = [op |-> "birdiebot", args |-> <<>>, calls |-> <<>>, logged |-> <<>>,
                   response |-> [status |-> 0]]

\* the record of the request and of what the handler did with it
Answered(postParams, xs) ==
    [op |-> "POST /birdie-webhook-callback",
     args |-> [postParams |-> postParams, exchanges |-> xs]] @@ postWebhook(postParams, xs)

\* a callback with its events, each send of a reply answered by its exchange
PostCallback ==
    \E n \in 0..MaxMessaging :
    \E events \in [1..n -> DemoEvents], failAt \in 0..n :
        /\ lastCall' = Answered(DemoCallback(events), DemoExchanges(n, failAt))
        /\ UNCHANGED <<BATCH_MODE, batchRequestBuffer>>

\* a request without a body, or with a body that is no messaging callback
PostInvalid ==
    \E postParams \in {JSNull, Obj([object |-> Str("page")])} :
        /\ lastCall' = Answered(postParams, <<>>)
        /\ UNCHANGED <<BATCH_MODE, batchRequestBuffer>>

NextDemo == PostCallback \/ PostInvalid

SpecDemo == InitDemo /\ [][NextDemo]_vars

(***************************************************************************)
(* Properties.                                                             *)
(***************************************************************************)
\* the last call issued a request or queued a sub-request
Sent == lastCall.http # <<>> \/ batchRequestBuffer # lastCall.before

\* the last call left the client as it was and issued nothing
NoEffect == lastCall.http = <<>> /\ batchRequestBuffer = lastCall.before

\* whether the arguments c of a _request call satisfy the documented contract:
\* a Send-API payload with recipient and message or sender_action and a tag that
\* is absent or a string, or another endpoint without a string tag
WellFormedCall(c) ==
    IF c.graphEndpoint = "me/messages"
    THEN /\ c.payload.t = "object"
         /\ "recipient" \in DOMAIN c.payload.fields
         /\ {"message", "sender_action"} \cap DOMAIN c.payload.fields # {}
         /\ c.payloadTag.t \in {"undefined", "null", "string"}
    ELSE c.payloadTag.t # "string"

\* the sub-request the contract asks for: {method, relative_url, body}
ExpectedSubRequest(c) ==
    [method |-> IF c.method.t = "string" THEN c.method.v ELSE "POST",
     relative_url |-> "v2.9/" \o c.graphEndpoint,
     body |-> IF c.payloadTag.t = "string"
              THEN Obj([k \in DOMAIN c.payload.fields \cup {"tag"} |->
                          IF k = "tag" THEN c.payloadTag ELSE c.payload.fields[k]])
              ELSE c.payload]

IsUrlAttachment(a) == a = Str("http://example.org/photo.jpg")

\* C1: on a batch-mode client a call through _request issues no HTTP request; a
\* well-formed call appends exactly one sub-request {method, relative_url, body}
\* to the queue, a rejected call appends none; an attachment sent by URL is
\* queued the same way.
C1_BatchQueuesOne ==
    /\ (BATCH_MODE /\ lastCall.op = "_request") =>
          /\ lastCall.http = <<>>
          /\ IF WellFormedCall(lastCall.args)
             THEN /\ lastCall.result.kind = "return"
                  /\ batchRequestBuffer =
                        Append(lastCall.before, ExpectedSubRequest(lastCall.args))
             ELSE /\ lastCall.result.kind = "throw"
                  /\ batchRequestBuffer = lastCall.before
    /\ (BATCH_MODE /\ lastCall.op = "sendAttachment"
            /\ IsUrlAttachment(lastCall.args.attachment)) =>
          /\ lastCall.http = <<>>
          /\ Len(batchRequestBuffer) = Len(lastCall.before) + 1
          /\ SubSeq(batchRequestBuffer, 1, Len(lastCall.before)) = lastCall.before
          /\ batchRequestBuffer[Len(batchRequestBuffer)].method = "POST"
          /\ batchRequestBuffer[Len(batchRequestBuffer)].relative_url = "v2.9/me/messages"

C1_Witness ==
    /\ BATCH_MODE
    /\ lastCall.op = "_request"
    /\ lastCall.result.kind = "return"
    /\ Len(lastCall.before) = 1
    /\ Len(batchRequestBuffer) = 2

\* C2: on a batch-mode client sendBatch() issues exactly one HTTP call, to the
\* Graph API root, whose batch array has one entry per queued sub-request (n
\* entries for n queued sends, n >= 0) in the order they were queued, and the
\* queue is empty right after.
C2_FlushInOrder ==
    (BATCH_MODE /\ lastCall.op = "sendBatch") =>
        /\ Len(lastCall.http) = 1
        /\ lastCall.http[1].url = "https://graph.facebook.com/"
        /\ LET batch == lastCall.http[1].data.batch.json IN
           /\ Len(batch) = Len(lastCall.before)
           /\ \A i \in 1..Len(lastCall.before) :
                /\ batch[i].method = lastCall.before[i].method
                /\ batch[i].relative_url = lastCall.before[i].relative_url
        /\ batchRequestBuffer = <<>>

C2_Witness ==
    /\ BATCH_MODE
    /\ lastCall.op = "sendBatch"
    /\ Len(lastCall.before) = 2
    /\ lastCall.before[1].method # lastCall.before[2].method
    /\ Len(lastCall.http[1].data.batch.json) = 2

\* C3: a flush that raises leaves the queue empty: whether the HTTP call was not
\* completed, answered with a status other than 200, with an error object or
\* with a body that is not JSON, the queue is empty after sendBatch() raised.
C3_FlushEmptiesOnFailure ==
    (BATCH_MODE /\ lastCall.op = "sendBatch" /\ lastCall.result.kind = "throw") =>
        batchRequestBuffer = <<>>

C3_Witness ==
    /\ BATCH_MODE
    /\ lastCall.op = "sendBatch"
    /\ lastCall.exchange = FailedExchange
    /\ lastCall.result.kind = "throw"
    /\ Len(lastCall.before) = 2
    /\ batchRequestBuffer = <<>>

\* C4: sendBatch() on a client not constructed in batch mode raises the
\* configuration error, issues no HTTP request and leaves the queue as it was.
C4_FlushNeedsBatchMode ==
    (~BATCH_MODE /\ lastCall.op = "sendBatch") =>
        /\ lastCall.result =
              Throw("Error", "FBMessenger instance not configured in batch mode!")
        /\ NoEffect

C4_Witness == ~BATCH_MODE /\ lastCall.op = "sendBatch"

\* C5: on a batch-mode client an attachment send whose attachment is a
\* MultipartStream is not queued: it issues one multipart HTTP request at once
\* and the queue is the same before and after the call.
C5_UploadBypassesQueue ==
    (BATCH_MODE /\ lastCall.op = "sendAttachment"
        /\ lastCall.args.attachment.t = "MultipartStream") =>
        /\ Len(lastCall.http) = 1
        /\ lastCall.http[1].contentType = "multipart/form-data"
        /\ lastCall.http[1].data.filedata.part = "BinaryPart"
        /\ batchRequestBuffer = lastCall.before

C5_Witness ==
    /\ BATCH_MODE
    /\ lastCall.op = "sendAttachment"
    /\ lastCall.args.attachment.t = "MultipartStream"
    /\ Len(lastCall.before) = 1
    /\ Len(lastCall.http) = 1

\* a call of the JSON or the multipart transport to me/messages
SendApiCall ==
    /\ lastCall.op \in {"_request", "_requestMultipart"}
    /\ lastCall.args.graphEndpoint = "me/messages"

\* C6: a send to me/messages whose payload has no recipient field raises before
\* any effect (no HTTP request, nothing queued), with the 'recipient missing'
\* configuration error when the payload is an object.
C6_RecipientRequired ==
    (SendApiCall /\ ~HasOwnProperty(lastCall.args.payload, "recipient")) =>
        /\ lastCall.result.kind = "throw"
        /\ NoEffect
        /\ lastCall.args.payload.t = "object" =>
              lastCall.result =
                  Throw("Error", "Invalid payload for Messenger Send API: recipient missing!")

C6_Witness ==
    /\ BATCH_MODE
    /\ lastCall.op = "_request"
    /\ lastCall.args.graphEndpoint = "me/messages"
    /\ lastCall.args.payload = Obj([message |-> Obj([text |-> Str("hi")])])
    /\ lastCall.result.kind = "throw"
    /\ Len(lastCall.before) = 1

\* the fields of the me/messages request the last call issued or queued: the
\* form fields of a multipart request, the fields of the JSON text of a JSON
\* request or of a queued sub-request
SentKeys ==
    IF lastCall.http = <<>>
    THEN DOMAIN JSONValue(batchRequestBuffer[Len(batchRequestBuffer)].body).fields
    ELSE IF lastCall.http[1].contentType = "multipart/form-data"
    THEN DOMAIN lastCall.http[1].data
    ELSE DOMAIN lastCall.http[1].data.json.fields

C8_AttachmentKindChecked ==
    (lastCall.op = "sendAttachment"
        /\ lastCall.args.attachment.t # "MultipartStream"
        /\ ~IsUrlAttachment(lastCall.args.attachment)) =>
        /\ lastCall.result =
              Throw("Error", "FBMessenger attachment must be an URL or MultipartStream!")
        /\ NoEffect

C8_Witness ==
    /\ BATCH_MODE
    /\ lastCall.op = "sendAttachment"
    /\ lastCall.args.attachment = Str("photo.jpg")
    /\ lastCall.args.type = "file"
    /\ lastCall.result.kind = "throw"
    /\ Len(lastCall.before) = 1

MessageOps ==
    {"sendTextMessage", "sendReusableAttachment", "sendImageAttachment",
     "sendAudioAttachment", "sendVideoAttachment", "sendFileAttachment",
     "sendGenericTemplate", "sendButtonTemplate", "sendAdvancedTemplate",
     "sendQuickReplies"}

\* the notification_type of the request the last call issued
SentNotificationType ==
    IF lastCall.http[1].contentType = "multipart/form-data"
    THEN lastCall.http[1].data.notification_type.text
    ELSE lastCall.http[1].data.json.fields.notification_type

\* C9: the payload a message-sending operation sends has notification_type
\* "REGULAR" when no notification type is passed (the argument is left out, null
\* or the empty string) and the passed value otherwise.
C9_NotificationTypeDefault ==
    (lastCall.op \in MessageOps /\ lastCall.http # <<>>) =>
        SentNotificationType =
            IF lastCall.args.notificationType \in {JSUndefined, JSNull, Str("")}
            THEN Str("REGULAR")
            ELSE lastCall.args.notificationType

C9_Witness ==
    /\ lastCall.op = "sendTextMessage"
    /\ lastCall.args.notificationType = JSUndefined
    /\ lastCall.http # <<>>
    /\ lastCall.http[1].data.json.fields.notification_type = Str("REGULAR")

\* C10 as claimed: the processing of an exchange (status, body) has exactly one of
\* three outcomes: the parse error when the body is not JSON, a GraphApiError
\* when the status is not 200 or the decoded body has an error field, and
\* otherwise the decoded body returned; no other failure, also for a null body.
C10_ThreeOutcomes ==
    lastCall.exchange.io = "done" =>
        LET decoded == JSONParse(lastCall.exchange.content) IN
        IF ~decoded.ok
        THEN lastCall.result =
                Throw("Error", "Could not parse JSON response by Messenger Send API: SyntaxError")
        ELSE IF lastCall.exchange.status # 200
                \/ (decoded.value.t = "object" /\ "error" \in DOMAIN decoded.value.fields)
        THEN lastCall.result.kind = "throw" /\ lastCall.result.name = "GraphApiError"
        ELSE lastCall.result.kind = "return"

\* C11: when the body of the response decodes to an object with an error object,
\* whatever the status, the call raises a GraphApiError whose response property
\* is the decoded body, unchanged: its error code, type and message are those
\* the remote side sent (code 190 of the OAuthException body).
C11_ErrorCarriesResponse ==
    (/\ lastCall.exchange.io = "done"
     /\ JSONParse(lastCall.exchange.content).ok
     /\ HasOwnProperty(JSONParse(lastCall.exchange.content).value, "error")) =>
        /\ lastCall.result.kind = "throw"
        /\ lastCall.result.name = "GraphApiError"
        /\ lastCall.result.response = JSONParse(lastCall.exchange.content).value
        /\ lastCall.exchange.content = BODY_ERROR =>
              /\ lastCall.result.response.fields.error.fields.code = Num("190")
              /\ lastCall.result.response.fields.error.fields.type = Str("OAuthException")
              /\ lastCall.result.response.fields.error.fields.message = Str("bad token")
              /\ lastCall.result.message =
                    "Messenger Send API error code 190; OAuthException; bad token"

C11_Witness ==
    /\ lastCall.exchange = Exchange(400, BODY_ERROR)
    /\ lastCall.result.kind = "throw"
    /\ lastCall.result.name = "GraphApiError"
    /\ lastCall.result.response.fields.error.fields.code = Num("190")

\* the sources of the streams the last request carried as form parts
SentStreams ==
    {lastCall.http[1].data[name].stream.source :
        name \in {n \in DOMAIN lastCall.http[1].data :
                    "stream" \in DOMAIN lastCall.http[1].data[n]}}

\* C12: after a multipart send whose request was issued, whether the exchange
\* succeeded or failed in any way, the stream of every upload in the payload is
\* closed and its close() was called exactly once, also when two fields of the
\* payload hold the same upload.
C12_StreamsClosedOnce ==
    (/\ lastCall.op \in {"_requestMultipart", "sendAttachment"}
     /\ lastCall.http # <<>>
     /\ lastCall.http[1].contentType = "multipart/form-data") =>
        /\ SentStreams # {}
        /\ DOMAIN lastCall.streams = SentStreams
        /\ \A source \in SentStreams :
              /\ lastCall.streams[source].closed
              /\ lastCall.streams[source].closes = 1

C12_Witness ==
    /\ lastCall.op = "_requestMultipart"
    /\ lastCall.exchange = FailedExchange
    /\ lastCall.result.kind = "throw"
    /\ {"filedata", "preview"} \subseteq DOMAIN lastCall.http[1].data
    /\ lastCall.streams["/tmp/photo.jpg"] = [closed |-> TRUE, closes |-> 1]

\* C13: no failure is retried: every call on a client that does not queue
\* (a send on a non-batch client, a multipart send, a flush) issues at most one
\* HTTP request, and exactly one when its exchange failed, whether the exchange
\* was not completed, answered with an error or with a body that cannot be
\* decoded; a call the checks reject issues none.
C13_NoRetry ==
    /\ Len(lastCall.http) <= 1
    /\ lastCall.exchange # NoExchange => Len(lastCall.http) = 1
    /\ lastCall.exchange = NoExchange => lastCall.http = <<>>

C13_Witness ==
    /\ ~BATCH_MODE
    /\ lastCall.op = "_request"
    /\ lastCall.exchange = Exchange(400, BODY_HTML)
    /\ lastCall.result.kind = "throw"
    /\ Len(lastCall.http) = 1

\* C14 as claimed: every sub-request of the flushed envelope carries the method,
\* the relative URL and the body of the request that was queued: no queued
\* request that had a body, a queued GET or DELETE included, is without a body
\* in the envelope.
C14_EnvelopeKeepsBody ==
    (BATCH_MODE /\ lastCall.op = "sendBatch") =>
        LET batch == lastCall.http[1].data.batch.json IN
        \A i \in 1..Len(lastCall.before) :
            /\ batch[i].method = lastCall.before[i].method
            /\ batch[i].relative_url = lastCall.before[i].relative_url
            /\ Truthy(lastCall.before[i].body) => "body" \in DOMAIN batch[i]

\* C15 as claimed: the URL of every request of a non-batch client is
\* https://graph.facebook.com/<version>/<endpoint>?access_token=<token>, followed
\* when a query string is given by one '&' and the query string: the message
\* operations request me/messages?access_token=<token>, and getUserProfile(userId,
\* fields) requests <userId>?access_token=<token>&fields=<the fields joined by
\* commas>, with one '&' before fields.
C15_SingleAmpersand ==
    /\ (lastCall.op \in MessageOps /\ lastCall.http # <<>>) =>
          lastCall.http[1].url =
              "https://graph.facebook.com/v2.9/me/messages?access_token=PAGE_TOKEN"
    /\ (lastCall.op = "getUserProfile" /\ lastCall.http # <<>>) =>
          lastCall.http[1].url =
              "https://graph.facebook.com/v2.9/U1?access_token=PAGE_TOKEN&fields="
                  \o (IF lastCall.args.fields.t = "array"
                      THEN "locale,timezone"
                      ELSE "first_name,last_name,profile_pic,locale,timezone,gender")

\* C16: for every callback x, isMessagingCallback(x) is true if and only if x is
\* an object that has an object field and whose entry is an array.
C16_MessagingCallback ==
    lastCall.op = "isMessagingCallback" =>
        LET x == lastCall.args.callbackData IN
        lastCall.result =
            Return(BoolOf(/\ x.t = "object"
                          /\ "object" \in DOMAIN x.fields
                          /\ "entry" \in DOMAIN x.fields
                          /\ x.fields.entry.t = "array"))

C16_Witness ==
    /\ lastCall.op = "isMessagingCallback"
    /\ lastCall.args.callbackData.t = "object"
    /\ "object" \in DOMAIN lastCall.args.callbackData.fields
    /\ lastCall.args.callbackData.fields.object = Str("user")
    /\ lastCall.result = Return(True)

\* the entry has message.mid
HasMid(entry) ==
    /\ entry.t = "object"
    /\ "message" \in DOMAIN entry.fields
    /\ entry.fields.message.t = "object"
    /\ "mid" \in DOMAIN entry.fields.message.fields

\* message.is_echo of the entry is true
EchoFlagged(entry) ==
    /\ "is_echo" \in DOMAIN entry.fields.message.fields
    /\ entry.fields.message.fields.is_echo = True

\* C17: for every entry that has message.mid, isMessage(entry) is true when
\* message.is_echo is not true and false when it is true, and isMessage(entry,
\* true) is true either way; an entry for which isEcho is true is no message for
\* isMessage(entry), and one that isMessage(entry) accepts is no echo.
C17_MessageUnlessEcho ==
    /\ (lastCall.op = "isMessage" /\ HasMid(lastCall.args.callbackEntry)) =>
          lastCall.result =
              Return(BoolOf(\/ lastCall.args.allowEcho = True
                            \/ ~EchoFlagged(lastCall.args.callbackEntry)))
    /\ (lastCall.op = "isEcho" /\ lastCall.result = Return(True)) =>
          isMessage(lastCall.args.callbackEntry, JSUndefined) = Return(False)
    /\ (lastCall.op = "isMessage" /\ lastCall.args.allowEcho = JSUndefined
            /\ lastCall.result = Return(True)) =>
          isEcho(lastCall.args.callbackEntry) = Return(False)

C17_Witness ==
    /\ lastCall.op = "isMessage"
    /\ lastCall.args.callbackEntry = EchoEvent
    /\ lastCall.args.allowEcho = JSUndefined
    /\ lastCall.result = Return(False)

\* x is a callback of a page with an entry array
PageCallback(x) ==
    /\ x.t = "object"
    /\ "object" \in DOMAIN x.fields
    /\ x.fields.object = Str("page")
    /\ "entry" \in DOMAIN x.fields
    /\ x.fields.entry.t = "array"

EntriesOf(x) == IF PageCallback(x) THEN x.fields.entry.items ELSE <<>>

\* every entry of x is an object
EntriesAreObjects(x) == \A i \in DOMAIN EntriesOf(x) : EntriesOf(x)[i].t = "object"

EntryOfPage(entry, pageId) == "id" \in DOMAIN entry.fields /\ entry.fields.id = pageId

\* the messaging items of the entries of pageId, entry after entry
RECURSIVE ExpectedMessaging(_, _)
ExpectedMessaging(entries, pageId) ==
    IF entries = <<>>
    THEN <<>>
    ELSE (IF /\ EntryOfPage(Head(entries), pageId)
             /\ "messaging" \in DOMAIN Head(entries).fields
             /\ Head(entries).fields.messaging.t = "array"
          THEN Head(entries).fields.messaging.items
          ELSE <<>>)
         \o ExpectedMessaging(Tail(entries), pageId)

\* C18: for a callback whose entries are objects, getMessagingForPage(x, pageId)
\* returns the messaging arrays of the entries of a page callback x whose id is
\* pageId, joined in entry order; the items of entries of other pages are left
\* out and an entry without a messaging array adds nothing.
C18_MessagingInEntryOrder ==
    (lastCall.op = "getMessagingForPage"
        /\ EntriesAreObjects(lastCall.args.callbackData)) =>
        lastCall.result =
            Return(Arr(ExpectedMessaging(EntriesOf(lastCall.args.callbackData),
                                         lastCall.args.pageId)))

C18_Witness ==
    /\ lastCall.op = "getMessagingForPage"
    /\ lastCall.args.pageId = P1
    /\ PageCallback(lastCall.args.callbackData)
    /\ Len(lastCall.args.callbackData.fields.entry.items) = 2
    /\ lastCall.result = Return(Arr(<<TextEvent, EchoEvent, PostbackEvent>>))

\* the entries of pageId, in order
RECURSIVE ExpectedEntries(_, _)
ExpectedEntries(entries, pageId) ==
    IF entries = <<>>
    THEN <<>>
    ELSE (IF EntryOfPage(Head(entries), pageId) THEN <<Head(entries)>> ELSE <<>>)
         \o ExpectedEntries(Tail(entries), pageId)

\* C19: for a callback whose entries are objects, getEntriesForPage(x, pageId)
\* returns in order the entries whose id is pageId when x is a page callback
\* (object is "page" and entry is an array) and the empty array for every other
\* x: null, undefined, a callback of another object, one without entry array.
C19_EntriesOfPage ==
    (lastCall.op = "getEntriesForPage"
        /\ EntriesAreObjects(lastCall.args.callbackData)) =>
        lastCall.result =
            Return(Arr(ExpectedEntries(EntriesOf(lastCall.args.callbackData),
                                       lastCall.args.pageId)))

C19_Witness ==
    /\ lastCall.op = "getEntriesForPage"
    /\ lastCall.args.pageId = P2
    /\ PageCallback(lastCall.args.callbackData)
    /\ Len(lastCall.args.callbackData.fields.entry.items) = 2
    /\ lastCall.result.kind = "return"
    /\ Len(lastCall.result.value.items) = 1
    /\ lastCall.result.value.items[1].fields.id = P2

\* C20 as claimed: no function of the classifier raises: for every callback and
\* every entry, null ones and ones with a null field included, each call returns
\* a boolean or an array.
C20_ClassifiersNeverRaise ==
    lastCall.op # "utils" =>
        /\ lastCall.result.kind = "return"
        /\ lastCall.result.value.t \in {"boolean", "array"}

\* C21: isValidFacebookId(x) is true if and only if x is a string of digits: it
\* is false for every x that is no string, the number 123456 included, and for
\* a string that is not numeric such as "abc".
C21_ValidFacebookId ==
    lastCall.op = "isValidFacebookId" =>
        lastCall.result =
            Return(BoolOf(/\ lastCall.args.id.t = "string"
                          /\ lastCall.args.id.v \in {"123456", "1234567890123456"}))

C21_Witness ==
    /\ lastCall.op = "isValidFacebookId"
    /\ lastCall.args.id = Num("123456")
    /\ lastCall.result = Return(False)

\* C22: on a non-batch client deleteProfileFields(fields) issues exactly one
\* DELETE request to me/messenger_profile whose body is the JSON text of
\* {fields: fields}, queues nothing, and returns the decoded body of a successful
\* exchange unchanged: a remote {result: "success"} comes back as result
\* "success".
C22_DeleteProfileFields ==
    lastCall.op = "deleteProfileFields" =>
        /\ Len(lastCall.http) = 1
        /\ lastCall.http[1].method = "DELETE"
        /\ lastCall.http[1].url =
              "https://graph.facebook.com/v2.9/me/messenger_profile?access_token=PAGE_TOKEN"
        /\ lastCall.http[1].data =
              [t |-> "string", json |-> Obj([fields |-> lastCall.args.fields])]
        /\ batchRequestBuffer = <<>>
        /\ lastCall.exchange = Exchange(200, BODY_RESULT) =>
              lastCall.result = Return(Obj([result |-> Str("success")]))
        /\ lastCall.exchange = Exchange(200, BODY_SUCCESS) =>
              lastCall.result =
                  Return(Obj([recipient_id |-> Str("U1"), message_id |-> Str("mid.1")]))

C22_Witness ==
    /\ lastCall.op = "deleteProfileFields"
    /\ lastCall.args.fields = Arr(<<Str("whitelisted_domains")>>)
    /\ lastCall.exchange = Exchange(200, BODY_RESULT)
    /\ lastCall.result.kind = "return"
    /\ lastCall.result.value.fields.result = Str("success")

C24_FlushedOnce ==
    [][BATCH_MODE =>
         IF lastCall'.op = "sendBatch"
         THEN /\ Len(lastCall'.http) = 1
              /\ lastCall'.http[1].data.batch.json = fbRequestObj(batchRequestBuffer)
              /\ Len(lastCall'.http[1].data.batch.json) = Len(batchRequestBuffer)
              /\ batchRequestBuffer' = <<>>
         ELSE /\ Len(batchRequestBuffer') >= Len(batchRequestBuffer)
              /\ SubSeq(batchRequestBuffer', 1, Len(batchRequestBuffer))
                    = batchRequestBuffer
              /\ \A i \in 1..Len(lastCall'.http) :
                    lastCall'.http[i].url # "https://graph.facebook.com/"]_vars

C24_Witness ==
    /\ BATCH_MODE
    /\ lastCall.op = "sendBatch"
    /\ lastCall.exchange = Exchange(400, BODY_ERROR)
    /\ lastCall.result.kind = "throw"
    /\ Len(lastCall.before) = 1
    /\ Len(lastCall.http[1].data.batch.json) = 1
    /\ batchRequestBuffer = <<>>

\* C25: a call queued on a batch-mode client asks for the same method, endpoint
\* and query parameters as the same call sent at once: the relative_url of the
\* queued sub-request is the versioned endpoint followed by the query string the
\* immediate request would carry (the fields of getUserProfile among them).
C25_QueuedKeepsQuery ==
    (BATCH_MODE /\ lastCall.op = "_request" /\ lastCall.result.kind = "return") =>
        LET queuedRequest == batchRequestBuffer[Len(batchRequestBuffer)]
            sent == jsonRequest(lastCall.args.graphEndpoint, lastCall.args.payload,
                                lastCall.args.queryString, lastCall.args.method) IN
        /\ queuedRequest.method = sent.method
        /\ IF TypeOf(lastCall.args.queryString) = "string"
           THEN queuedRequest.relative_url
                    \in {FB_API_VERSION \o lastCall.args.graphEndpoint \o sep
                            \o lastCall.args.queryString.v : sep \in {"?", "?&", ""}}
           ELSE queuedRequest.relative_url
                    = FB_API_VERSION \o lastCall.args.graphEndpoint

\* C26: on a non-batch client every public send operation returns the decoded
\* response of a successful exchange; sendQuickReplies does so whether it is
\* given a text, an attachment object or a MultipartStream.
C26_SendReturnsResponse ==
    (lastCall.op \in MessageOps \cup {"sendSenderAction"}
        /\ lastCall.exchange = Exchange(200, BODY_SUCCESS)) =>
        lastCall.result =
            Return(Obj([recipient_id |-> Str("U1"), message_id |-> Str("mid.1")]))

\* the tag of the last call is neither null, undefined nor a string
TagIsNoString(tag) == ~IsNullish(tag) /\ TypeOf(tag) # "string"

\* C27: the tag is handled alike on the JSON and the multipart path: a string
\* tag is attached to the payload sent; a tag that is neither null nor a string
\* is rejected with 'Invalid payload tag!' before any HTTP activity or queueing;
\* a string tag on an endpoint other than me/messages is rejected.
C27_TagCheckedOnBothPaths ==
    /\ (lastCall.op = "_request" /\ lastCall.args.graphEndpoint = "me/messages"
            /\ ~IsNullish(lastCall.args.payload)
            /\ ~recipientMissing(lastCall.args.payload)
            /\ ~messageMissing(lastCall.args.payload)) =>
          /\ TagIsNoString(lastCall.args.payloadTag) =>
                /\ lastCall.result = Throw("Error", "Invalid payload tag!")
                /\ NoEffect
          /\ (TypeOf(lastCall.args.payloadTag) = "string" /\ ~BATCH_MODE) =>
                /\ Len(lastCall.http) = 1
                /\ lastCall.http[1].data.json.fields.tag = lastCall.args.payloadTag
    /\ (lastCall.op = "_request" /\ lastCall.args.graphEndpoint # "me/messages"
            /\ TypeOf(lastCall.args.payloadTag) = "string") =>
          /\ lastCall.result.kind = "throw"
          /\ NoEffect
    /\ (lastCall.op = "sendAttachment" /\ lastCall.args.attachment = Upload) =>
          /\ TagIsNoString(lastCall.args.tag) =>
                /\ lastCall.result = Throw("Error", "Invalid payload tag!")
                /\ NoEffect
          /\ TypeOf(lastCall.args.tag) = "string" =>
                /\ Len(lastCall.http) = 1
                /\ "tag" \in DOMAIN lastCall.http[1].data
                /\ lastCall.http[1].data.tag.text = lastCall.args.tag

\* C28: an upload handle built from a path opens its stream only when a send
\* consumes it: after a send that is rejected before the exchange (no HTTP
\* request was issued) no stream of the payload's handles is open.
C28_NoStreamLeftOpen ==
    (lastCall.op \in {"_requestMultipart", "sendAttachment"} /\ lastCall.http = <<>>) =>
        \A source \in DOMAIN lastCall.streams : lastCall.streams[source].closed

\* C29: setAudienceType sends only the audience_type for "all" and "none", the
\* audience_type together with the countries object it was given for "custom",
\* each in one POST to me/messenger_profile, and for any other value raises
\* 'Invalid audience type <value>' with no HTTP request and nothing queued.
C29_AudienceType ==
    lastCall.op = "setAudienceType" =>
        LET audienceType == lastCall.args.audienceType
            countries == lastCall.args.countries IN
        IF audienceType \in {Str("all"), Str("none"), Str("custom")}
        THEN /\ Len(lastCall.http) = 1
             /\ lastCall.http[1].method = "POST"
             /\ lastCall.http[1].url =
                  "https://graph.facebook.com/v2.9/me/messenger_profile?access_token=PAGE_TOKEN"
             /\ batchRequestBuffer = lastCall.before
             /\ IF audienceType = Str("custom") /\ countries # JSUndefined
                THEN lastCall.http[1].data.json =
                        Obj([target_audience |->
                               Obj([audience_type |-> Str("custom"),
                                    countries |-> countries])])
                ELSE lastCall.http[1].data.json =
                        Obj([target_audience |-> Obj([audience_type |-> audienceType])])
        ELSE /\ lastCall.result.kind = "throw"
             /\ lastCall.result.name = "Error"
             /\ audienceType = Str("everyone") =>
                   lastCall.result.message = "Invalid audience type everyone"
             /\ audienceType = JSUndefined =>
                   lastCall.result.message = "Invalid audience type undefined"
             /\ NoEffect

C29_Witness ==
    /\ lastCall.op = "setAudienceType"
    /\ lastCall.args.audienceType = Str("custom")
    /\ lastCall.args.countries = Whitelist
    /\ lastCall.exchange = Exchange(200, BODY_RESULT)
    /\ lastCall.result = Return(Obj([result |-> Str("success")]))

\* the events of the last callback that are messages, then its postbacks: the
\* order in which the handler takes them up
InboundOf(postParams) ==
    LET events == postParams.fields.entry.items[1].fields.messaging.items
        hasMessage(event) == "message" \in DOMAIN event.fields
        hasPostback(event) == "postback" \in DOMAIN event.fields
    IN SelectSeq(events, hasMessage) \o SelectSeq(events, hasPostback)

\* the last request was a messaging callback
CallbackPosted ==
    /\ lastCall.op = "POST /birdie-webhook-callback"
    /\ lastCall.args.postParams # JSNull
    /\ "entry" \in DOMAIN lastCall.args.postParams.fields

\* C30: in the POST handler of the demo webhook an error raised while one
\* inbound message is processed does not abort its siblings: every message and
\* every postback of the callback is processed, and the handler answers 200 with
\* a timestamp.
C30_SiblingsProcessed ==
    CallbackPosted =>
        /\ Len(lastCall.calls) = Len(InboundOf(lastCall.args.postParams))
        /\ \A i \in DOMAIN lastCall.calls :
              lastCall.calls[i].event = InboundOf(lastCall.args.postParams)[i]
        /\ lastCall.response.status = 200
        /\ "timestamp" \in DOMAIN lastCall.response.body.fields

\* C30 as amended: an error raised while one inbound message or postback is
\* processed is caught and logged once and the handler answers 200 with a
\* timestamp, but the error ends the processing of the callback: the events are
\* taken up in order, messages first and postbacks after them, up to the first
\* one that raises, and all of them only when none raises.
C30_StopsAtFirstError ==
    CallbackPosted =>
        LET inbound == InboundOf(lastCall.args.postParams)
            calls == lastCall.calls IN
        /\ Len(calls) <= Len(inbound)
        /\ \A i \in DOMAIN calls :
              /\ calls[i].event = inbound[i]
              /\ i < Len(calls) => calls[i].result.kind = "return"
        /\ IF calls # <<>> /\ calls[Len(calls)].result.kind = "throw"
           THEN lastCall.logged = <<[message |-> "Processing error!",
                                     error |-> calls[Len(calls)].result]>>
           ELSE /\ Len(calls) = Len(inbound)
                /\ lastCall.logged = <<>>
        /\ lastCall.response.status = 200
        /\ lastCall.response.body = Obj([timestamp |-> Now])

C30_Witness ==
    /\ CallbackPosted
    /\ Len(InboundOf(lastCall.args.postParams)) = 3
    /\ "postback" \in DOMAIN InboundOf(lastCall.args.postParams)[3].fields
    /\ Len(lastCall.calls) = 1
    /\ lastCall.calls[1].result.kind = "throw"
    /\ Len(lastCall.logged) = 1
    /\ lastCall.response.status = 200

====
